---- MODULE Spec2Model ----
(***************************************************************************)
(* Cart engine, order materializer, order lifecycle and order-code         *)
(* sequence of the storefront backend, as state machines over the          *)
(* document collections the route handlers read and write.                 *)
(*                                                                         *)
(* Identifiers.  A document id is an ObjectId; on the wire it is a string  *)
(* of 24 hex digits.  Parsing such a string (a Mongoose cast) ignores the  *)
(* case of the digits, printing an ObjectId (toString) yields lower-case   *)
(* digits.  A string is modelled as a record: [kind |-> "hex", of, upper]  *)
(* is the 24-digit spelling of id `of`, in upper case when `upper`;        *)
(* [kind |-> "code", n] is the text "ORD-<n>"; [kind |-> "text"] is any    *)
(* other text.  The modelled ids contain at least one digit a-f, so the    *)
(* two spellings differ.                                                   *)
(***************************************************************************)
EXTENDS Integers, Sequences, FiniteSets

VARIABLES products, carts, addresses, users, orders, counter, settings, cache,
          res, saving, issued, now, loads, db, flight

vars == <<products, carts, addresses, users, orders, counter, settings, cache,
          res, saving, issued, now, loads, db, flight>>

(***************************************************************************)
(* Bounds of the model.                                                    *)
(***************************************************************************)
MaxQty == 2
MaxItems == 2
MaxOrders == 2
MaxCheckouts == 1
MaxCodes == 3
MaxExpiries == 1
MaxDays == 2
MaxAttempts == 3

Null == "null"

\* a string the request body omits
Absent == [kind |-> "none"]

Users == {"u1", "u2", "m1", "a1"}
Products == {"p1", "p2"}
UnknownProduct == "p9"
\* the addresses seeded at start-up, and one that POST /addresses may create
SeededAddresses == {"ad1", "ad2"}
AddressIds == SeededAddresses \cup {"ad3"}
UnknownAddress == "ad9"
Prices == {1, 2}
Currencies == {"USD", "EUR"}
Statuses == {"pending", "paid", "shipped", "delivered", "cancelled", "refunded"}

\* req.user.role as the protect middleware resolves it from the bearer token;
\* an account provisioned by the guest checkout is a customer
RoleOf(u) ==
  IF u = "a1" THEN "admin" ELSE IF u = "m1" THEN "manager"
  ELSE IF u = "u2" THEN "user" ELSE "customer"

\* a middleware that lets every authenticated request through
AuthorizeAsOpen(u, roles) == TRUE
\* the authorize(...roles) middleware lets the request through
Authorize(u, roles) == RoleOf(u) \in roles

\* ObjectId.prototype.toString: the lower-case spelling
IdToString(id) == [kind |-> "hex", of |-> id, upper |-> FALSE]

HexStr(id, up) == [kind |-> "hex", of |-> id, upper |-> up]

\* the test /^[a-fA-F0-9]{24}$/ and the validator isMongoId
IsObjectId(v) == v.kind = "hex"

\* Mongoose's cast of a 24-digit string to an ObjectId: case-insensitive
CastObjectId(v) == v.of

RECURSIVE SumSeq(_)
SumSeq(s) == IF s = <<>> THEN 0 ELSE Head(s) + SumSeq(Tail(s))

RECURSIVE SeqMap(_, _)
SeqMap(F(_), s) == IF s = <<>> THEN <<>> ELSE <<F(Head(s))>> \o SeqMap(F, Tail(s))


\* Array.prototype.findIndex, 1-based; 0 when no element satisfies T
FindIndex(s, T(_)) ==
  IF \E i \in 1..Len(s) : T(s[i])
  THEN CHOOSE i \in 1..Len(s) : T(s[i]) /\ \A j \in 1..(i - 1) : ~T(s[j])
  ELSE 0

\* Array.prototype.splice(idx, 1)
Splice(s, idx) == [i \in 1..(Len(s) - 1) |-> IF i < idx THEN s[i] ELSE s[i + 1]]

(***************************************************************************)
(* Settings cache (utils/settings)                                         *)
(***************************************************************************)
DefaultCurrency == "USD"

\* const CACHE_TTL_MS = 60 * 1000
CACHE_TTL_MS == 60 * 1000

\* cache.currency && now - cache.loadedAt < CACHE_TTL_MS
CacheHit == cache.currency # Null /\ now - cache.loadedAt < CACHE_TTL_MS

StoreCurrency == IF settings = Null THEN DefaultCurrency ELSE settings

\* the value getCurrency() resolves to
GetCurrency == IF CacheHit THEN cache.currency ELSE StoreCurrency

\* the cache and the settings document after loadSettings()
CacheAfterLoad == IF CacheHit THEN cache ELSE [currency |-> StoreCurrency, loadedAt |-> now]

SettingsAfterLoad == IF CacheHit THEN settings ELSE StoreCurrency

\* the response of the last request: HTTP status, error text, and the counts
\* a bulk operation reports
BulkRespond(op, status, error, matched, missing) ==
  [op |-> op, status |-> status, error |-> error,
   matchedCount |-> matched, notFound |-> missing]

Respond(op, status, error) == BulkRespond(op, status, error, 0, <<>>)

(***************************************************************************)
(* Catalog lookup                                                          *)
(***************************************************************************)
FindActiveProductAsAny(id) == IF id \in Products /\ products[id].exists THEN id ELSE Null
\* Product.findOne({ _id, isActive: true }) for the id a string casts to
FindActiveProduct(id) ==
  IF id \in Products /\ products[id].exists /\ products[id].isActive
  THEN id ELSE Null

(***************************************************************************)
(* Cart engine (routes/cart)                                               *)
(***************************************************************************)
NoCart == [exists |-> FALSE]

EmptyCart(cur) == [exists |-> TRUE, items |-> <<>>, totalAmount |-> 0, currency |-> cur]

\* the cart getOrCreateCart(userId) returns, which is also what it persists
GetOrCreateCart(u) ==
  IF ~carts[u].exists
  THEN EmptyCart(GetCurrency)
  ELSE [carts[u] EXCEPT !.currency = GetCurrency]

RecalcItem(it) == [it EXCEPT !.subtotal = it.price * it.quantity]

ItemSubtotal(it) == it.subtotal

RecalcCartAsStaleTotal(cart) == [cart EXCEPT !.items = SeqMap(RecalcItem, cart.items)]
\* recalcCart: every subtotal and the total, from scratch
RecalcCart(cart) ==
  LET its == SeqMap(RecalcItem, cart.items)
  IN  [cart EXCEPT !.items = its, !.totalAmount = SumSeq(SeqMap(ItemSubtotal, its))]

NewItem(p, qty) ==
  [product |-> p, name |-> products[p].name, price |-> products[p].price,
   quantity |-> qty, subtotal |-> products[p].price * qty]

\* POST /cart/add
CartAdd(u, productId, qty) ==
  LET p == FindActiveProduct(CastObjectId(productId))
  IN
  IF p = Null
  THEN /\ res' = Respond("cartAdd", 400, "Product not found or inactive")
       /\ UNCHANGED <<carts, cache, settings>>
       /\ UNCHANGED <<products, addresses, users, orders, counter, saving, issued, now, loads, db, flight>>
  ELSE
    LET cart == GetOrCreateCart(u)
        Match(i) == IdToString(i.product) = productId
        idx == FindIndex(cart.items, Match)
    IN
    /\ IF idx > 0 THEN cart.items[idx].quantity + qty <= MaxQty
                  ELSE Len(cart.items) < MaxItems
    /\ carts' = [carts EXCEPT ![u] =
         RecalcCart(IF idx > 0
                    THEN [cart EXCEPT !.items[idx].quantity = @ + qty]
                    ELSE [cart EXCEPT !.items = Append(@, NewItem(p, qty))])]
    /\ cache' = CacheAfterLoad
    /\ settings' = SettingsAfterLoad
    /\ res' = Respond("cartAdd", 201, Null)
    /\ UNCHANGED <<products, addresses, users, orders, counter, saving, issued, now, loads, db, flight>>

\* PATCH /cart/item/:productId
CartSetQuantity(u, productId, qty) ==
  LET cart == GetOrCreateCart(u)
      Match(i) == IdToString(i.product) = productId
      idx == FindIndex(cart.items, Match)
  IN
  /\ cache' = CacheAfterLoad
  /\ settings' = SettingsAfterLoad
  /\ IF idx = 0
     THEN /\ carts' = [carts EXCEPT ![u] = cart]
          /\ res' = Respond("cartSet", 404, "Item not found in cart")
     ELSE /\ carts' = [carts EXCEPT ![u] =
               RecalcCart(IF qty = 0
                          THEN [cart EXCEPT !.items = Splice(@, idx)]
                          ELSE [cart EXCEPT !.items[idx].quantity = qty])]
          /\ res' = Respond("cartSet", 200, Null)
  /\ UNCHANGED <<products, addresses, users, orders, counter, saving, issued, now, loads, db, flight>>

\* DELETE /cart/item/:productId
CartRemove(u, productId) ==
  LET cart == GetOrCreateCart(u)
      Keep(i) == IdToString(i.product) # productId
      kept == SelectSeq(cart.items, Keep)
  IN
  /\ cache' = CacheAfterLoad
  /\ settings' = SettingsAfterLoad
  /\ IF Len(kept) = Len(cart.items)
     THEN /\ carts' = [carts EXCEPT ![u] = cart]
          /\ res' = Respond("cartRemove", 404, "Item not found in cart")
     ELSE /\ carts' = [carts EXCEPT ![u] = RecalcCart([cart EXCEPT !.items = kept])]
          /\ res' = Respond("cartRemove", 200, Null)
  /\ UNCHANGED <<products, addresses, users, orders, counter, saving, issued, now, loads, db, flight>>

\* DELETE /cart
CartClear(u) ==
  /\ carts' = [carts EXCEPT ![u] =
        [GetOrCreateCart(u) EXCEPT !.items = <<>>, !.totalAmount = 0]]
  /\ cache' = CacheAfterLoad
  /\ settings' = SettingsAfterLoad
  /\ res' = Respond("cartClear", 200, Null)
  /\ UNCHANGED <<products, addresses, users, orders, counter, saving, issued, now, loads, db, flight>>

\* GET /cart
CartGet(u) ==
  /\ carts' = [carts EXCEPT ![u] = GetOrCreateCart(u)]
  /\ cache' = CacheAfterLoad
  /\ settings' = SettingsAfterLoad
  /\ res' = Respond("cartGet", 200, Null)
  /\ UNCHANGED <<products, addresses, users, orders, counter, saving, issued, now, loads, db, flight>>


(***************************************************************************)
(* Catalog maintenance (routes/products)                                   *)
(***************************************************************************)
\* PUT /products/:id with a price
ProductSetPrice(p, price) ==
  /\ products[p].exists
  /\ products[p].price # price
  /\ products' = [products EXCEPT ![p].price = price]
  /\ res' = Respond("productUpdate", 200, Null)
  /\ UNCHANGED <<carts, addresses, users, orders, counter, settings, cache, saving, issued, now, loads, db, flight>>

\* PUT /products/:id with a name and a price
ProductSetNamePrice(p, name, price) ==
  /\ products[p].exists
  /\ products[p].name # name \/ products[p].price # price
  /\ products' = [products EXCEPT ![p].name = name, ![p].price = price]
  /\ res' = Respond("productUpdate", 200, Null)
  /\ UNCHANGED <<carts, addresses, users, orders, counter, settings, cache, saving, issued, now, loads, db, flight>>

\* PUT /products/:id with isActive
ProductSetActive(p, a) ==
  /\ products[p].exists
  /\ products[p].isActive # a
  /\ products' = [products EXCEPT ![p].isActive = a]
  /\ res' = Respond("productUpdate", 200, Null)
  /\ UNCHANGED <<carts, addresses, users, orders, counter, settings, cache, saving, issued, now, loads, db, flight>>

\* DELETE /products/:id
ProductRemove(p) ==
  /\ products[p].exists
  /\ products' = [products EXCEPT ![p].exists = FALSE]
  /\ res' = Respond("productDelete", 200, Null)
  /\ UNCHANGED <<carts, addresses, users, orders, counter, settings, cache, saving, issued, now, loads, db, flight>>

(***************************************************************************)
(* Address book (routes/addresses)                                         *)
(***************************************************************************)
\* Address.findOne({ _id, user, isActive: true })
FindActiveAddress(id, u) ==
  IF id \in AddressIds /\ addresses[id].user = u /\ addresses[id].isActive
  THEN id ELSE Null

\* the document Address.create persists for user u
NewAddress(u, isDefault) ==
  [user |-> u, isActive |-> TRUE, isDefault |-> isDefault,
   fullName |-> "fn", phone |-> "ph", line1 |-> "l1", line2 |-> "",
   city |-> "c", governorate |-> "g", postalCode |-> "", country |-> "EG"]

\* an _id no document has yet
NoAddress == [NewAddress(Null, FALSE) EXCEPT !.isActive = FALSE]

\* Address.updateMany({ user: u, _id: { $ne: id } }, { $set: { isDefault: false } })
UnsetOthers(A, u, id) ==
  [x \in AddressIds |->
     IF x # id /\ A[x].user = u THEN [A[x] EXCEPT !.isDefault = FALSE] ELSE A[x]]

\* Object.assign(addr, req.body): every field the body carries is copied
AssignBody(addr, body) ==
  [addr EXCEPT !.line1 = IF "line1" \in body.fields THEN body.line1 ELSE @,
               !.isDefault = IF "isDefault" \in body.fields THEN body.isDefault ELSE @,
               !.user = IF "user" \in body.fields THEN body.user ELSE @]

\* PUT /addresses/:id
AddressUpdate(u, id, body) ==
  /\ IF FindActiveAddress(id, u) = Null
     THEN /\ res' = Respond("addressUpdate", 404, "Address not found")
          /\ UNCHANGED addresses
     ELSE LET addr == AssignBody(addresses[id], body)
              saved == [addresses EXCEPT ![id] = addr]
          IN  /\ addresses' = IF addr.isDefault THEN UnsetOthers(saved, u, id) ELSE saved
              /\ res' = Respond("addressUpdate", 200, Null)
  /\ UNCHANGED <<products, carts, users, orders, counter, settings, cache, saving, issued, now, loads, db, flight>>

\* PUT /addresses/:id with a line1
AddressSetLine1(u, a, line) ==
  /\ FindActiveAddress(a, u) # Null
  /\ addresses[a].line1 # line
  /\ AddressUpdate(u, a, [fields |-> {"line1"}, line1 |-> line])

\* POST /addresses
AddressCreate(u, isDefault) ==
  /\ \E id \in AddressIds : addresses[id] = NoAddress
  /\ LET id == CHOOSE x \in AddressIds : addresses[x] = NoAddress
         saved == [addresses EXCEPT ![id] = NewAddress(u, isDefault)]
     IN  addresses' = IF isDefault THEN UnsetOthers(saved, u, id) ELSE saved
  /\ res' = Respond("addressCreate", 201, Null)
  /\ UNCHANGED <<products, carts, users, orders, counter, settings, cache, saving, issued, now, loads, db, flight>>

\* POST /addresses/:id/default
AddressSetDefault(u, id) ==
  /\ IF FindActiveAddress(id, u) = Null
     THEN /\ res' = Respond("addressDefault", 404, "Address not found")
          /\ UNCHANGED addresses
     ELSE /\ addresses' = UnsetOthers([addresses EXCEPT ![id].isDefault = TRUE], u, id)
          /\ res' = Respond("addressDefault", 200, Null)
  /\ UNCHANGED <<products, carts, users, orders, counter, settings, cache, saving, issued, now, loads, db, flight>>

\* DELETE /addresses/:id (soft)
AddressDelete(u, a) ==
  /\ FindActiveAddress(a, u) # Null
  /\ addresses' = [addresses EXCEPT ![a].isActive = FALSE]
  /\ res' = Respond("addressDelete", 200, Null)
  /\ UNCHANGED <<products, carts, users, orders, counter, settings, cache, saving, issued, now, loads, db, flight>>

(***************************************************************************)
(* Settings (utils/settings)                                               *)
(***************************************************************************)
\* setCurrency(newCurrency)
SetCurrency(c) ==
  /\ StoreCurrency # c
  /\ settings' = c
  /\ cache' = [currency |-> c, loadedAt |-> now]
  /\ res' = Respond("setCurrency", 200, Null)
  /\ UNCHANGED <<products, carts, addresses, users, orders, counter, saving, issued, now, loads, db, flight>>

\* d milliseconds pass
Tick(d) ==
  /\ now' = now + d
  /\ res' = Respond("tick", 0, Null)
  /\ UNCHANGED <<products, carts, addresses, users, orders, counter, settings, cache,
                 saving, issued, loads, db, flight>>

\* CACHE_TTL_MS pass without a load: the cache entry is no longer served
CacheExpire == CacheHit /\ Tick(CACHE_TTL_MS)

(***************************************************************************)
(* Order-code sequence (models/Order pre-save hook, models/Counter)        *)
(***************************************************************************)
NextSeqAsRead(c) == IF c = 0 THEN 1 ELSE c
\* Counter.findOneAndUpdate({_id:"orderCode"}, {$inc:{seq:1}}, {new, upsert}):
\* one atomic store operation; an absent document (0) is inserted with seq 1
NextSeq(c) == c + 1

\* the text `ORD-${c.seq}`
OrderCode(n) == [kind |-> "code", n |-> n]

\* the address fields copied into an order
SnapshotAddress(addr) ==
  [fullName |-> addr.fullName, phone |-> addr.phone, line1 |-> addr.line1,
   line2 |-> addr.line2, city |-> addr.city, governorate |-> addr.governorate,
   postalCode |-> addr.postalCode, country |-> addr.country]

\* the shippingAddress sub-document when the payload gives none
BlankAddress ==
  [fullName |-> "", phone |-> "", line1 |-> "", line2 |-> "",
   city |-> "", governorate |-> "", postalCode |-> "", country |-> ""]

\* orderSchema.status default
InitialStatus == "pending"

\* the document Order.create persists: schema defaults, then the code
NewOrder(id, seq, u, items, total, cur, ship) ==
  [id |-> id, orderCode |-> OrderCode(seq), user |-> u, items |-> items,
   totalAmount |-> total, currency |-> cur, status |-> InitialStatus,
   shippingAddress |-> ship, isActive |-> TRUE, createdAt |-> now]

(***************************************************************************)
(* Order materializer (routes/orders POST /, POST /guest; routes/cart      *)
(* POST /checkout)                                                         *)
(***************************************************************************)
IsElevated(u) == RoleOf(u) \in {"admin", "manager"}

\* isAdmin && req.body.userId ? req.body.userId : req.user.id
TargetUserAsNamed(caller, userId) == IF userId # Null THEN userId ELSE caller
TargetUser(caller, userId) ==
  IF IsElevated(caller) /\ userId # Null THEN userId ELSE caller

\* map.get(key) on the Map keyed by p._id.toString() of the active products
\* that Product.find({ _id: { $in }, isActive: true }) returned
MapGet(key) ==
  IF key = IdToString(CastObjectId(key)) THEN FindActiveProduct(CastObjectId(key))
  ELSE Null

\* cart.items.map(ci => ({ productId: ci.product.toString(), quantity }))
CartSource(items) ==
  [i \in 1..Len(items) |->
     [productId |-> IdToString(items[i].product), quantity |-> items[i].quantity]]

AllResolved(src) == \A i \in 1..Len(src) : MapGet(src[i].productId) # Null

\* const price = p.price: the catalog's price at materialization
LinePrice(p) == products[p].price

LineSubtotalAsPrice(price, quantity) == price
\* const subtotal = price * quantity
LineSubtotal(price, quantity) == price * quantity

\* the order's line items, built from the catalog's current name and price
OrderItems(src) ==
  [i \in 1..Len(src) |->
     LET p == MapGet(src[i].productId)
         price == LinePrice(p)
     IN  [product |-> p, name |-> products[p].name, price |-> price,
          quantity |-> src[i].quantity,
          subtotal |-> LineSubtotal(price, src[i].quantity)]]

OrderTotal(items) == SumSeq(SeqMap(ItemSubtotal, items))

CartIsEmptyAsNever(cart) == FALSE
\* cart.items.length === 0
CartIsEmpty(cart) == cart.items = <<>>

ClearedCart(cart) == [cart EXCEPT !.items = <<>>, !.totalAmount = 0]

\* Order.create: the pre-save hook takes the next code, the document is stored
Persist(u, items, cur, ship) ==
  /\ counter' = NextSeq(counter)
  /\ issued' = Append(issued, NextSeq(counter))
  /\ orders' = Append(orders,
        NewOrder(Len(orders) + 1, NextSeq(counter), u, items, OrderTotal(items), cur, ship))

Reject(op, status, error) ==
  /\ res' = Respond(op, status, error)
  /\ UNCHANGED <<products, carts, addresses, users, orders, counter, settings, cache,
                 saving, issued, now, loads, db, flight>>

\* POST /orders; userId is Null and addressId Absent when the body omits them;
\* items is <<>> when the body has no items array (the validator rejects an
\* empty array, so the handler never sees one)
CreateOrder(caller, userId, addressId, items) ==
  LET target == TargetUser(caller, userId)
      addr == IF addressId = Absent THEN Null
              ELSE FindActiveAddress(CastObjectId(addressId), target)
      fromCart == items = <<>>
      src == IF fromCart THEN CartSource(carts[target].items) ELSE items
  IN
  IF addressId = Absent
  THEN Reject("createOrder", 400, "addressId is required for authenticated users")
  ELSE IF addr = Null
  THEN Reject("createOrder", 404, "Address not found")
  ELSE IF fromCart /\ (~carts[target].exists \/ CartIsEmpty(carts[target]))
  THEN Reject("createOrder", 400, "No items provided and cart is empty")
  ELSE IF ~AllResolved(src)
  THEN Reject("createOrder", 400, "Product not found or inactive")
  ELSE
    /\ Persist(target, OrderItems(src), GetCurrency, SnapshotAddress(addresses[addr]))
    /\ cache' = CacheAfterLoad
    /\ settings' = SettingsAfterLoad
    /\ carts' = IF fromCart THEN [carts EXCEPT ![target] = ClearedCart(@)] ELSE carts
    /\ res' = Respond("createOrder", 201, Null)
    /\ UNCHANGED <<products, addresses, users, saving, now, loads, db, flight>>

\* POST /cart/checkout; ship is the body's shippingAddress object (default {})
CartCheckout(caller, userId, ship) ==
  LET target == TargetUser(caller, userId)
      cart == GetOrCreateCart(target)
      src == CartSource(cart.items)
  IN
  /\ cache' = CacheAfterLoad
  /\ settings' = SettingsAfterLoad
  /\ UNCHANGED <<products, addresses, users, saving, now, loads, db, flight>>
  /\ IF CartIsEmpty(cart)
     THEN /\ carts' = [carts EXCEPT ![target] = cart]
          /\ res' = Respond("cartCheckout", 400, "Cart is empty")
          /\ UNCHANGED <<orders, counter, issued>>
     ELSE IF ~AllResolved(src)
     THEN /\ carts' = [carts EXCEPT ![target] = cart]
          /\ res' = Respond("cartCheckout", 400, "Product no longer available")
          /\ UNCHANGED <<orders, counter, issued>>
     ELSE /\ Persist(target, OrderItems(src), GetCurrency, ship)
          /\ carts' = [carts EXCEPT ![target] = ClearedCart(cart)]
          /\ res' = Respond("cartCheckout", 201, Null)

\* POST /orders/guest; the account is found by e-mail or created
GuestOrder(items, ship, guest) ==
  IF ~AllResolved(items)
  THEN Reject("guestOrder", 400, "Product not found or inactive")
  ELSE
    /\ Persist(guest, OrderItems(items), GetCurrency, SnapshotAddress(ship))
    /\ users' = users \cup {guest}
    /\ cache' = CacheAfterLoad
    /\ settings' = SettingsAfterLoad
    /\ res' = Respond("guestOrder", 201, Null)
    /\ UNCHANGED <<products, carts, addresses, saving, now, loads, db, flight>>

(***************************************************************************)
(* Order lifecycle (routes/orders PATCH /:id/status, PATCH /status/bulk,   *)
(* DELETE /bulk, POST /:id/cancel)                                         *)
(***************************************************************************)
\* Order.findById(id): the position of the order in the collection, or 0
FindOrderById(id) == IF id \in 1..Len(orders) THEN id ELSE 0

StatusPatchAsForwardOnly(current, requested) ==
  IF current \in {"delivered", "cancelled", "refunded"} THEN current ELSE requested
\* the update { status: req.body.status }: the requested status, whatever
\* the current one
StatusPatch(current, requested) == requested

\* PATCH /orders/:id/status, behind authorize("admin", "manager")
UpdateStatus(caller, id, status) ==
  LET k == FindOrderById(CastObjectId(id))
  IN
  IF ~Authorize(caller, {"admin", "manager"})
  THEN Reject("updateStatus", 403, "Forbidden")
  ELSE IF k = 0
  THEN Reject("updateStatus", 404, "Not found")
  ELSE
    /\ orders' = [orders EXCEPT ![k].status = StatusPatch(@, status)]
    /\ res' = Respond("updateStatus", 200, Null)
    /\ UNCHANGED <<products, carts, addresses, users, counter, settings, cache,
                   saving, issued, now, loads, db, flight>>

SeqToSet(s) == {s[i] : i \in 1..Len(s)}

\* orderIds.filter(isObjectId) and orderIds.filter(v => !isObjectId(v))
MongoIds(orderIds) == {v \in SeqToSet(orderIds) : IsObjectId(v)}

OrderCodes(orderIds) == {v \in SeqToSet(orderIds) : ~IsObjectId(v)}

\* Order.find({ $or: [{ _id: { $in: mongoIds } }, { orderCode: { $in: orderCodes } }] })
FoundOrders(orderIds) ==
  {k \in 1..Len(orders) :
     \/ \E v \in MongoIds(orderIds) : CastObjectId(v) = orders[k].id
     \/ orders[k].orderCode \in OrderCodes(orderIds)}

\* the ids and codes of the found orders, as strings
NormalizedFound(found) ==
  {IdToString(orders[k].id) : k \in found} \cup {orders[k].orderCode : k \in found}

NotInNormalized(orderIds, found) ==
  LET Missing(v) == v \notin NormalizedFound(found)
  IN  SelectSeq(orderIds, Missing)

\* PATCH /orders/status/bulk, behind authorize("admin", "manager")
BulkStatus(caller, orderIds, status) ==
  LET found == FoundOrders(orderIds)
  IN
  IF ~Authorize(caller, {"admin", "manager"})
  THEN Reject("bulkStatus", 403, "Forbidden")
  ELSE IF found = {}
  THEN Reject("bulkStatus", 404, "No matching orders found")
  ELSE
    /\ orders' = [k \in 1..Len(orders) |->
                    IF k \in found THEN [orders[k] EXCEPT !.status = StatusPatch(@, status)]
                    ELSE orders[k]]
    /\ res' = BulkRespond("bulkStatus", 200, Null, Cardinality(found),
                          NotInNormalized(orderIds, found))
    /\ UNCHANGED <<products, carts, addresses, users, counter, settings, cache,
                   saving, issued, now, loads, db, flight>>

DeactivatedAsWiped(o) == [o EXCEPT !.isActive = FALSE, !.items = <<>>, !.totalAmount = 0]
\* the update { $set: { isActive: false } }
Deactivated(o) == [o EXCEPT !.isActive = FALSE]

\* DELETE /orders/bulk, behind authorize("admin", "manager")
BulkDelete(caller, orderIds) ==
  LET found == FoundOrders(orderIds)
  IN
  IF ~Authorize(caller, {"admin", "manager"})
  THEN Reject("bulkDelete", 403, "Forbidden")
  ELSE IF found = {}
  THEN Reject("bulkDelete", 404, "No matching orders found")
  ELSE
    /\ orders' = [k \in 1..Len(orders) |->
                    IF k \in found THEN Deactivated(orders[k])
                    ELSE orders[k]]
    /\ res' = BulkRespond("bulkDelete", 200, Null, Cardinality(found),
                          NotInNormalized(orderIds, found))
    /\ UNCHANGED <<products, carts, addresses, users, counter, settings, cache,
                   saving, issued, now, loads, db, flight>>

CancellableAsNotFinal(status) == status \in {"pending", "paid"}
\* order.status !== "pending" rejects
Cancellable(status) == status = "pending"

IsOwnerAsOwnerOrElevated(o, caller) ==
  IdToString(o.user) = IdToString(caller) \/ IsElevated(caller)
\* order.user.toString() === req.user.id
IsOwner(o, caller) == IdToString(o.user) = IdToString(caller)

\* POST /orders/:id/cancel
Cancel(caller, id) ==
  LET k == FindOrderById(CastObjectId(id))
  IN
  IF k = 0 \/ ~orders[k].isActive
  THEN Reject("cancel", 404, "Not found")
  ELSE IF ~IsOwner(orders[k], caller)
  THEN Reject("cancel", 403, "Forbidden")
  ELSE IF ~Cancellable(orders[k].status)
  THEN Reject("cancel", 400, "Only pending orders can be cancelled")
  ELSE
    /\ orders' = [orders EXCEPT ![k].status = "cancelled"]
    /\ res' = Respond("cancel", 200, Null)
    /\ UNCHANGED <<products, carts, addresses, users, counter, settings, cache,
                   saving, issued, now, loads, db, flight>>

(***************************************************************************)
(* Concurrent saves: Order.create of one request is two store operations,  *)
(* the counter update of the pre-save hook and the insert of the document; *)
(* the saves of different requests interleave between the two.             *)
(***************************************************************************)
Savers == {"w1", "w2"}

\* pre-save hook of a new order without a code
GenerateCode(w) ==
  /\ saving[w] = 0
  /\ counter < MaxCodes
  /\ counter' = NextSeq(counter)
  /\ saving' = [saving EXCEPT ![w] = NextSeq(counter)]
  /\ issued' = Append(issued, NextSeq(counter))
  /\ res' = Respond("generateCode", 0, Null)
  /\ UNCHANGED <<products, carts, addresses, users, orders, settings, cache, now, loads, db, flight>>

\* the insert that completes the save
InsertOrder(w, u) ==
  /\ saving[w] # 0
  /\ LET items == OrderItems(<<[productId |-> IdToString("p1"), quantity |-> 1]>>)
     IN orders' = Append(orders,
          NewOrder(Len(orders) + 1, saving[w], u, items, OrderTotal(items),
                   DefaultCurrency, BlankAddress))
  /\ saving' = [saving EXCEPT ![w] = 0]
  /\ res' = Respond("insertOrder", 201, Null)
  /\ UNCHANGED <<products, carts, addresses, users, counter, settings, cache, issued,
                 now, loads, db, flight>>

(***************************************************************************)
(* Order queries (routes/orders GET /, GET /:id)                           *)
(***************************************************************************)
\* a response that carries documents
DataRespond(op, status, data) == [op |-> op, status |-> status, error |-> Null, data |-> data]

\* the positions in S as sequences sorted by createdAt, newest first (the
\* store breaks ties as it likes), cut after limit documents
NewestFirst(S, limit) ==
  LET n == Cardinality(S)
      m == IF limit < n THEN limit ELSE n
  IN  {SubSeq(f, 1, m) :
         f \in {g \in [1..n -> S] :
                  /\ \A i, j \in 1..n : i # j => g[i] # g[j]
                  /\ \A i, j \in 1..n :
                       i < j => orders[g[i]].createdAt >= orders[g[j]].createdAt}}

DefaultLimit == 10

\* const filter = { isActive: true }, narrowed to the caller's own orders
\* unless the caller is an admin or a manager, and to a status when asked
ListFilterAsAll(caller, status) ==
  {k \in 1..Len(orders) :
     /\ IsElevated(caller) \/ orders[k].user = caller
     /\ status = Null \/ orders[k].status = status}
ListFilter(caller, status) ==
  {k \in 1..Len(orders) :
     /\ orders[k].isActive
     /\ IsElevated(caller) \/ orders[k].user = caller
     /\ status = Null \/ orders[k].status = status}

\* GET /orders, first page with the default limit and sort
ListOrders(caller, status) ==
  /\ \E data \in NewestFirst(ListFilter(caller, status), DefaultLimit) :
       res' = DataRespond("list", 200, data)
  /\ UNCHANGED <<products, carts, addresses, users, orders, counter, settings, cache,
                 saving, issued, now, loads, db, flight>>

\* GET /orders/:id
GetOrder(caller, id) ==
  LET k == FindOrderById(CastObjectId(id))
  IN
  IF k = 0 \/ ~orders[k].isActive
  THEN Reject("getOrder", 404, "Not found")
  ELSE IF ~IsOwner(orders[k], caller) /\ ~IsElevated(caller)
  THEN Reject("getOrder", 403, "Forbidden")
  ELSE
    /\ res' = DataRespond("getOrder", 200, <<k>>)
    /\ UNCHANGED <<products, carts, addresses, users, orders, counter, settings, cache,
                   saving, issued, now, loads, db, flight>>

(***************************************************************************)
(* Dashboard (routes/stats GET /dashboard).  Instants are milliseconds;    *)
(* the server's zone is UTC, so a local calendar day is a UTC day.         *)
(***************************************************************************)
DayMs == 24 * 60 * 60 * 1000

\* toISOString().slice(0, 10) and $dateToString "%Y-%m-%d": the UTC day
UtcDay(t) == t \div DayMs

\* iter.setDate(iter.getDate() + 1)
NextDay(t) == t + DayMs

RevenueStatuses == {"paid", "shipped", "delivered"}

\* $match { isActive: true, status: { $in: revenueStatuses },
\*          createdAt: { $gte: a, $lte: b } }
RevenueMatchAsAll(o, a, b) ==
  o.status \in RevenueStatuses /\ a <= o.createdAt /\ o.createdAt <= b
RevenueMatch(o, a, b) ==
  o.isActive /\ o.status \in RevenueStatuses /\ a <= o.createdAt /\ o.createdAt <= b

TotalAmountOf(o) == o.totalAmount

\* $group { _id: null, totalRevenue: { $sum: "$totalAmount" }, salesCount: { $sum: 1 } }
RevenueAgg(a, b) ==
  LET Match(o) == RevenueMatch(o, a, b)
      found == SelectSeq(orders, Match)
  IN  [totalRevenue |-> SumSeq(SeqMap(TotalAmountOf, found)), salesCount |-> Len(found)]

\* the overview group of one day: the matched orders created on that day
DayAgg(day, a, b) ==
  LET Match(o) == RevenueMatch(o, a, b) /\ UtcDay(o.createdAt) = day
      found == SelectSeq(orders, Match)
  IN  [date |-> day, revenue |-> SumSeq(SeqMap(TotalAmountOf, found)), orders |-> Len(found)]

\* const iter = new Date(start); while (iter <= end) { push; next day }
RECURSIVE SeriesFrom(_, _, _)
SeriesFrom(iter, start, end) ==
  IF iter <= end
  THEN <<DayAgg(UtcDay(iter), start, end)>> \o SeriesFrom(NextDay(iter), start, end)
  ELSE <<>>

\* accounts exist from the start and are active; their timestamps are 0
UserCreatedAt(u) == 0

UserUpdatedAt(u) == 0

\* User.countDocuments({ createdAt: { $gte: a, $lte: b } })
Subscriptions(a, b) == Cardinality({u \in users : a <= UserCreatedAt(u) /\ UserCreatedAt(u) <= b})

\* User.countDocuments({ status: "active", isActive: true, updatedAt: { $gte, $lte } })
ActiveNow(a, b) == Cardinality({u \in users : a <= UserUpdatedAt(u) /\ UserUpdatedAt(u) <= b})

\* a quotient n / d of integers, kept exact
Ratio(n, d) == [num |-> n, den |-> d]

PctAsUnguarded(curr, prev) ==
  IF prev = 0 THEN Ratio(0, 1) ELSE Ratio((curr - prev) * 100, prev)
\* const pct = (curr, prev) => ...
Pct(curr, prev) ==
  IF prev = 0 /\ curr = 0 THEN Ratio(0, 1)
  ELSE IF prev = 0 THEN Ratio(100, 1)
  ELSE Ratio((curr - prev) * 100, prev)

\* Order.find({ isActive: true, status: { $in: revenueStatuses } })
RecentMatch == {k \in 1..Len(orders) : orders[k].isActive /\ orders[k].status \in RevenueStatuses}

\* GET /stats/dashboard?start=..&end=..&limit=.., behind authorize("admin", "manager")
Dashboard(caller, start, end, limit) ==
  LET prevEnd == start
      prevStart == start - (end - start)
      cur == RevenueAgg(start, end)
      prev == RevenueAgg(prevStart, prevEnd)
  IN
  IF ~Authorize(caller, {"admin", "manager"})
  THEN Reject("dashboard", 403, "Forbidden")
  ELSE
    /\ \E recent \in NewestFirst(RecentMatch, limit) :
         res' = [op |-> "dashboard", status |-> 200, error |-> Null,
                 range |-> [start |-> start, end |-> end],
                 totalRevenue |-> cur.totalRevenue,
                 sales |-> cur.salesCount,
                 subscriptions |-> Subscriptions(start, end),
                 activeNow |-> ActiveNow(start, end),
                 overview |-> SeriesFrom(start, start, end),
                 recentSales |-> recent,
                 change |->
                   [totalRevenue |-> Pct(cur.totalRevenue, prev.totalRevenue),
                    subscriptions |-> Pct(Subscriptions(start, end),
                                          Subscriptions(prevStart, prevEnd)),
                    sales |-> Pct(cur.salesCount, prev.salesCount),
                    activeNow |-> Pct(ActiveNow(start, end), ActiveNow(prevStart, prevEnd))],
                 previous |->
                   [totalRevenue |-> prev.totalRevenue,
                    subscriptions |-> Subscriptions(prevStart, prevEnd),
                    sales |-> prev.salesCount,
                    activeNow |-> ActiveNow(prevStart, prevEnd)]]
    /\ UNCHANGED <<products, carts, addresses, users, orders, counter, settings, cache,
                   saving, issued, now, loads, db, flight>>

(***************************************************************************)
(* Requests suspended at an await.  A handler that reads a document, awaits *)
(* and saves it later holds a copy; the store serves other requests in      *)
(* between.  save() sends the modified paths only: a changed element of     *)
(* items is set in place and requires the version the copy was read at, a   *)
(* pushed element is appended and raises the version, a replaced items      *)
(* array requires the version and raises it.  stale records that the        *)
(* version has been raised since the copy was read.                         *)
(***************************************************************************)
Requests == {"q1", "q2"}

Parked == [pc |-> "idle"]

NoFlight == [q \in Requests |-> Parked]

HoldsCart(f, u) == f.pc \in {"addSave", "create", "clear"} /\ f.u = u

\* the version of u's cart is raised by request q
RaiseVersion(F, u, q) ==
  [x \in Requests |->
     IF x # q /\ HoldsCart(F[x], u) THEN [F[x] EXCEPT !.stale = TRUE] ELSE F[x]]

\* POST /cart/add up to await cart.save(): the product and the cart are
\* read, the copy is modified and recalculated
CartAddRead(q, u, productId, qty) ==
  LET p == FindActiveProduct(CastObjectId(productId))
  IN
  /\ flight[q] = Parked
  /\ IF p = Null
     THEN Reject("cartAdd", 400, "Product not found or inactive")
     ELSE
       LET cart == GetOrCreateCart(u)
           Match(i) == IdToString(i.product) = productId
           idx == FindIndex(cart.items, Match)
           copy == RecalcCart(IF idx > 0
                              THEN [cart EXCEPT !.items[idx].quantity = @ + qty]
                              ELSE [cart EXCEPT !.items = Append(@, NewItem(p, qty))])
       IN
       /\ IF idx > 0 THEN cart.items[idx].quantity + qty <= MaxQty
                     ELSE Len(cart.items) < MaxItems
       /\ carts' = [carts EXCEPT ![u] = cart]
       /\ cache' = CacheAfterLoad
       /\ settings' = SettingsAfterLoad
       /\ flight' = [flight EXCEPT ![q] =
            [pc |-> "addSave", u |-> u, stale |-> FALSE, idx |-> idx,
             item |-> copy.items[IF idx > 0 THEN idx ELSE Len(copy.items)],
             totalAmount |-> copy.totalAmount]]
       /\ res' = Respond("cartAddRead", 0, Null)
       /\ UNCHANGED <<products, addresses, users, orders, counter, saving, issued, now, loads, db>>

\* the answer of POST /cart/add: the item of the returned copy, and the
\* stored item the write replaced (inPlace) or the item it appended
AddRespond(status, error, f, replaced) ==
  [op |-> "cartAdd", status |-> status, error |-> error,
   inPlace |-> f.idx > 0, data |-> f.item, replaced |-> replaced]

\* an update that adds the copy's increase to the stored quantity
SaveInPlaceAsIncrement(cart, f) ==
  [cart EXCEPT !.items[f.idx].quantity = @ + 1,
               !.items[f.idx].subtotal = @ + f.item.price,
               !.totalAmount = @ + f.item.price]

\* $set of items.<idx> fields and totalAmount from the copy
SaveInPlace(cart, f) ==
  [cart EXCEPT !.items[f.idx] = f.item, !.totalAmount = f.totalAmount]

\* $push of the new item, $set of totalAmount from the copy
SavePushed(cart, f) ==
  [cart EXCEPT !.items = Append(@, f.item), !.totalAmount = f.totalAmount]

\* the store applies the cart.save() of POST /cart/add
CartAddSave(q) ==
  LET f == flight[q]
      cart == carts[f.u]
  IN
  /\ f.pc = "addSave"
  /\ IF f.idx > 0 /\ f.stale
     THEN /\ res' = AddRespond(500, "Server error", f, f.item)
          /\ carts' = carts
          /\ flight' = [flight EXCEPT ![q] = Parked]
     ELSE IF f.idx > 0
     THEN /\ res' = AddRespond(201, Null, f, cart.items[f.idx])
          /\ carts' = [carts EXCEPT ![f.u] = SaveInPlace(cart, f)]
          /\ flight' = [flight EXCEPT ![q] = Parked]
     ELSE /\ res' = AddRespond(201, Null, f, f.item)
          /\ carts' = [carts EXCEPT ![f.u] = SavePushed(cart, f)]
          /\ flight' = [RaiseVersion(flight, f.u, q) EXCEPT ![q] = Parked]
  /\ UNCHANGED <<products, addresses, users, orders, counter, settings, cache,
                 saving, issued, now, loads, db>>

\* the answer of a checkout, with the order it created (0 for none)
CheckoutRespond(route, status, error, order) ==
  [op |-> "checkout", route |-> route, status |-> status, error |-> error, order |-> order]

\* a checkout up to its read of the cart: POST /cart/checkout (route "cart",
\* default shippingAddress) or POST /orders without items (route "orders",
\* with an addressId), by a customer for themselves
CheckoutRead(q, route, u, addressId) ==
  LET addr == FindActiveAddress(CastObjectId(addressId), u)
      cart == IF route = "cart" THEN GetOrCreateCart(u) ELSE carts[u]
      hold(ship) == [pc |-> "create", route |-> route, u |-> u, stale |-> FALSE,
                     items |-> cart.items, ship |-> ship, order |-> 0]
  IN
  /\ flight[q] = Parked
  /\ UNCHANGED <<products, addresses, users, orders, counter, saving, issued, now, loads, db>>
  /\ IF route = "cart"
     THEN /\ carts' = [carts EXCEPT ![u] = cart]
          /\ cache' = CacheAfterLoad
          /\ settings' = SettingsAfterLoad
          /\ IF CartIsEmpty(cart)
             THEN /\ res' = CheckoutRespond(route, 400, "Cart is empty", 0)
                  /\ flight' = flight
             ELSE /\ res' = CheckoutRespond(route, 0, Null, 0)
                  /\ flight' = [flight EXCEPT ![q] = hold(BlankAddress)]
     ELSE /\ UNCHANGED <<carts, cache, settings>>
          /\ IF addr = Null
             THEN /\ res' = CheckoutRespond(route, 404, "Address not found", 0)
                  /\ flight' = flight
             ELSE IF ~cart.exists \/ CartIsEmpty(cart)
             THEN /\ res' = CheckoutRespond(route, 400, "No items provided and cart is empty", 0)
                  /\ flight' = flight
             ELSE /\ res' = CheckoutRespond(route, 0, Null, 0)
                  /\ flight' = [flight EXCEPT ![q] = hold(SnapshotAddress(addresses[addr]))]

\* the checkout resolves the products, reads the currency and creates the order
CheckoutCreate(q) ==
  LET f == flight[q]
      src == CartSource(f.items)
  IN
  /\ f.pc = "create"
  /\ UNCHANGED <<products, carts, addresses, users, saving, now, loads, db>>
  /\ IF ~AllResolved(src)
     THEN /\ res' = CheckoutRespond(f.route, 400, "Product not found or inactive", 0)
          /\ flight' = [flight EXCEPT ![q] = Parked]
          /\ UNCHANGED <<orders, counter, issued, cache, settings>>
     ELSE /\ Persist(f.u, OrderItems(src), GetCurrency, f.ship)
          /\ cache' = CacheAfterLoad
          /\ settings' = SettingsAfterLoad
          /\ res' = CheckoutRespond(f.route, 0, Null, Len(orders) + 1)
          /\ flight' = [flight EXCEPT ![q] = [f EXCEPT !.pc = "clear", !.order = Len(orders) + 1]]

\* the checkout clears the cart and answers; ok tells whether the store
\* accepts the write.  POST /cart/checkout saves the copy it read, POST
\* /orders reads the cart again and saves that.
CheckoutClear(q, ok) ==
  LET f == flight[q]
      failed == ~ok \/ (f.route = "cart" /\ f.stale)
  IN
  /\ f.pc = "clear"
  /\ IF failed
     THEN /\ res' = CheckoutRespond(f.route, 500, "Server error", f.order)
          /\ carts' = carts
          /\ flight' = [flight EXCEPT ![q] = Parked]
     ELSE /\ res' = CheckoutRespond(f.route, 201, Null, f.order)
          /\ carts' = [carts EXCEPT ![f.u] = ClearedCart(@)]
          /\ flight' = [RaiseVersion(flight, f.u, q) EXCEPT ![q] = Parked]
  /\ UNCHANGED <<products, addresses, users, orders, counter, settings, cache,
                 saving, issued, now, loads, db>>

\* POST /orders/:id/cancel up to await order.save()
CancelRead(q, caller, id) ==
  LET k == FindOrderById(CastObjectId(id))
  IN
  /\ flight[q] = Parked
  /\ IF k = 0 \/ ~orders[k].isActive
     THEN Reject("cancel", 404, "Not found")
     ELSE IF ~IsOwner(orders[k], caller)
     THEN Reject("cancel", 403, "Forbidden")
     ELSE IF ~Cancellable(orders[k].status)
     THEN Reject("cancel", 400, "Only pending orders can be cancelled")
     ELSE
       /\ flight' = [flight EXCEPT ![q] = [pc |-> "cancelSave", u |-> caller, k |-> k]]
       /\ res' = Respond("cancelRead", 0, Null)
       /\ UNCHANGED <<products, carts, addresses, users, orders, counter, settings, cache,
                      saving, issued, now, loads, db>>

\* the store applies the order.save() of the cancel: status is the one
\* modified path
CancelSave(q) ==
  /\ flight[q].pc = "cancelSave"
  /\ orders' = [orders EXCEPT ![flight[q].k].status = "cancelled"]
  /\ flight' = [flight EXCEPT ![q] = Parked]
  /\ res' = DataRespond("cancel", 200, flight[q].k)
  /\ UNCHANGED <<products, carts, addresses, users, counter, settings, cache,
                 saving, issued, now, loads, db>>

(***************************************************************************)
(* In-flight settings loads and the database connection                    *)
(***************************************************************************)
\* the requests that may be inside loadSettings() at the same time
Loaders == {"g1", "g2"}

Idle == [pc |-> "idle", doc |-> Null, at |-> 0]

NoLoads == [g \in Loaders |-> Idle]

\* the answer of getCurrency(): the currency, and whether the cache served it
CurrencyRespond(currency, cached) ==
  [op |-> "getCurrency", status |-> 200, error |-> Null,
   data |-> currency, cached |-> cached]

\* loadSettings(), cache branch: the entry is younger than CACHE_TTL_MS
LoadSettingsCached(g) ==
  /\ loads[g].pc = "idle"
  /\ CacheHit
  /\ res' = CurrencyRespond(cache.currency, TRUE)
  /\ UNCHANGED <<products, carts, addresses, users, orders, counter, settings, cache,
                 saving, issued, now, loads, db, flight>>

\* loadSettings(), miss: now is read and Settings.findById("global") is
\* answered by the store; the function is suspended at the await
LoadSettingsFind(g) ==
  /\ loads[g].pc = "idle"
  /\ ~CacheHit
  /\ loads' = [loads EXCEPT ![g] = [pc |-> "await", doc |-> settings, at |-> now]]
  /\ res' = Respond("findById", 0, Null)
  /\ UNCHANGED <<products, carts, addresses, users, orders, counter, settings, cache,
                 saving, issued, now, db, flight>>

\* loadSettings(), no document: findOneAndUpdate with $setOnInsert and upsert
LoadSettingsUpsert(g) ==
  /\ loads[g].pc = "await"
  /\ loads[g].doc = Null
  /\ settings' = StoreCurrency
  /\ loads' = [loads EXCEPT ![g].doc = StoreCurrency]
  /\ res' = Respond("upsert", 0, Null)
  /\ UNCHANGED <<products, carts, addresses, users, orders, counter, cache,
                 saving, issued, now, db, flight>>

\* loadSettings() resumes with the document it read: the cache takes the
\* document's currency and the time read when the function started
LoadSettingsStore(g) ==
  /\ loads[g].pc = "await"
  /\ loads[g].doc # Null
  /\ cache' = [currency |-> loads[g].doc, loadedAt |-> loads[g].at]
  /\ loads' = [loads EXCEPT ![g] = Idle]
  /\ res' = CurrencyRespond(loads[g].doc, FALSE)
  /\ UNCHANGED <<products, carts, addresses, users, orders, counter, settings,
                 saving, issued, now, db, flight>>

SettingsNext ==
  \/ \E c \in Currencies : SetCurrency(c)
  \/ \E g \in Loaders : LoadSettingsCached(g)
  \/ \E g \in Loaders : LoadSettingsFind(g)
  \/ \E g \in Loaders : LoadSettingsUpsert(g)
  \/ \E g \in Loaders : LoadSettingsStore(g)
  \/ Tick(CACHE_TTL_MS \div 2) /\ now' <= MaxExpiries * CACHE_TTL_MS

\* the requests that may call connectDB() at the same time
Callers == {"r1", "r2", "r3"}

\* global.__mongoose = { conn: null, promise: null }; 0 stands for null, a
\* promise is the number of the connection attempt it belongs to, and a
\* connection the number of the attempt that established it.  attempts is
\* the state of every mongoose.connect() made so far, awaiting the promise
\* each suspended caller waits for.
NoConnection ==
  [conn |-> 0, promise |-> 0, attempts |-> <<>>, awaiting |-> [c \in Callers |-> 0]]

Settled(n) == db.attempts[n] # "pending"

\* the .catch handler that does not reset the cached promise
OnConnectErrorAsCached(d, n) == [d EXCEPT !.attempts[n] = "rejected"]

\* .catch((err) => { cached.promise = null; throw err; })
OnConnectError(d, n) == [d EXCEPT !.attempts[n] = "rejected", !.promise = 0]

\* connectDB() up to its await; uri tells whether MONGODB_URI is set
ConnectDB(c, uri) ==
  /\ db.awaiting[c] = 0
  /\ IF db.conn # 0
     THEN /\ res' = DataRespond("connectDB", 200, db.conn)
          /\ db' = db
     ELSE IF db.promise = 0 /\ ~uri
     THEN /\ res' = Respond("connectDB", 500, "MONGODB_URI is missing")
          /\ db' = db
     ELSE IF db.promise = 0
     THEN /\ res' = Respond("connectDB", 0, Null)
          /\ db' = [db EXCEPT !.attempts = Append(db.attempts, "pending"),
                              !.promise = Len(db.attempts) + 1,
                              !.awaiting[c] = Len(db.attempts) + 1]
     ELSE /\ res' = Respond("connectDB", 0, Null)
          /\ db' = [db EXCEPT !.awaiting[c] = db.promise]
  /\ UNCHANGED <<products, carts, addresses, users, orders, counter, settings, cache,
                 saving, issued, now, loads, flight>>

\* mongoose.connect() resolves: the .then handler passes the instance on
AttemptSucceeds(n) ==
  /\ n \in 1..Len(db.attempts)
  /\ db.attempts[n] = "pending"
  /\ db' = [db EXCEPT !.attempts[n] = "fulfilled"]
  /\ res' = Respond("connected", 0, Null)
  /\ UNCHANGED <<products, carts, addresses, users, orders, counter, settings, cache,
                 saving, issued, now, loads, flight>>

\* mongoose.connect() rejects: the .catch handler runs
AttemptFails(n) ==
  /\ n \in 1..Len(db.attempts)
  /\ db.attempts[n] = "pending"
  /\ db' = OnConnectError(db, n)
  /\ res' = Respond("connectError", 0, Null)
  /\ UNCHANGED <<products, carts, addresses, users, orders, counter, settings, cache,
                 saving, issued, now, loads, flight>>

\* cached.conn = await cached.promise; return cached.conn
ConnectSettled(c) ==
  /\ db.awaiting[c] # 0
  /\ Settled(db.awaiting[c])
  /\ IF db.attempts[db.awaiting[c]] = "fulfilled"
     THEN /\ db' = [db EXCEPT !.conn = db.awaiting[c], !.awaiting[c] = 0]
          /\ res' = DataRespond("connectDB", 200, db.awaiting[c])
     ELSE /\ db' = [db EXCEPT !.awaiting[c] = 0]
          /\ res' = Respond("connectDB", 500, "connection error")
  /\ UNCHANGED <<products, carts, addresses, users, orders, counter, settings, cache,
                 saving, issued, now, loads, flight>>

ConnectNext ==
  \/ \E c \in Callers, uri \in BOOLEAN :
       ConnectDB(c, uri) /\ Len(db'.attempts) <= MaxAttempts
  \/ \E n \in 1..MaxAttempts : AttemptSucceeds(n)
  \/ \E n \in 1..MaxAttempts : AttemptFails(n)
  \/ \E c \in Callers : ConnectSettled(c)

(***************************************************************************)
(* Initial state: the collections after start-up, with a seeded catalog    *)
(* and one saved address per customer.                                     *)
(***************************************************************************)
InitProduct(p) == [exists |-> TRUE, name |-> "n1", price |-> 1, isActive |-> TRUE]

InitAddress(a) ==
  IF a \in SeededAddresses
  THEN NewAddress(IF a = "ad1" THEN "u1" ELSE "u2", FALSE)
  ELSE NoAddress

Init ==
  /\ products = [p \in Products |-> InitProduct(p)]
  /\ carts = [u \in Users |-> NoCart]
  /\ addresses = [a \in AddressIds |-> InitAddress(a)]
  /\ users = Users
  /\ orders = <<>>
  /\ counter = 0
  /\ settings = Null
  /\ cache = [currency |-> Null, loadedAt |-> 0]
  /\ res = Respond("none", 0, Null)
  /\ saving = [w \in Savers |-> 0]
  /\ issued = <<>>
  /\ now = 0
  /\ loads = NoLoads
  /\ db = NoConnection
  /\ flight = NoFlight

(***************************************************************************)
(* Request inputs                                                          *)
(***************************************************************************)
ProductIdStrings == {HexStr(p, up) : p \in Products \cup {UnknownProduct}, up \in BOOLEAN}

Item(p, up, q) == [productId |-> HexStr(p, up), quantity |-> q]

\* item lists of a payload: one product, two products, a product twice, an
\* unknown product first or last, an upper-case spelling
ItemLists ==
  {<<Item("p1", FALSE, 1)>>,
   <<Item("p1", FALSE, MaxQty), Item("p2", FALSE, 1)>>,
   <<Item("p2", FALSE, 1), Item("p2", FALSE, 1)>>,
   <<Item("p2", FALSE, 1), Item(UnknownProduct, FALSE, 1)>>,
   <<Item(UnknownProduct, FALSE, 1), Item("p1", FALSE, 1)>>,
   <<Item("p1", TRUE, 1)>>}

AddressIdInputs == {Absent} \cup {HexStr(a, FALSE) : a \in SeededAddresses \cup {UnknownAddress}}

InlineAddress ==
  [fullName |-> "gn", phone |-> "gp", line1 |-> "gl", line2 |-> "",
   city |-> "gc", governorate |-> "gg", postalCode |-> "", country |-> "EG"]

(***************************************************************************)
(* SpecCart: one customer's cart under every cart operation, while the     *)
(* catalog changes prices and availability.                                *)
(***************************************************************************)
CartNext ==
  \/ \E s \in ProductIdStrings, q \in 1..MaxQty : CartAdd("u1", s, q)
  \/ \E s \in ProductIdStrings, q \in 0..MaxQty : CartSetQuantity("u1", s, q)
  \/ \E s \in ProductIdStrings : CartRemove("u1", s)
  \/ CartClear("u1")
  \/ CartGet("u1")
  \/ \E p \in Products, pr \in Prices : ProductSetPrice(p, pr)
  \/ \E p \in Products, a \in BOOLEAN : ProductSetActive(p, a)

SpecCart == Init /\ [][CartNext]_vars

(***************************************************************************)
(* SpecSeq: the saves of concurrent order creations.                       *)
(***************************************************************************)
SeqNext ==
  \/ \E w \in Savers : GenerateCode(w)
  \/ \E w \in Savers, u \in {"u1", "u2"} : InsertOrder(w, u)

SpecSeq == Init /\ [][SeqNext]_vars

(***************************************************************************)
(* SpecCheckout: orders materialized from the cart, from a payload and     *)
(* from a guest payload, while catalog and address book change.            *)
(***************************************************************************)
\* (caller, userId of the body): a customer, an admin naming that customer,
\* another customer naming that customer
CallerTargets == {<<"u1", Null>>, <<"a1", "u1">>, <<"u2", "u1">>}

\* item lists of a POST /orders payload: none (the cart is the source), two
\* products, an unknown product after a known one
PayloadLists ==
  {<<>>,
   <<Item("p1", FALSE, MaxQty), Item("p2", FALSE, 1)>>,
   <<Item("p2", FALSE, 1), Item(UnknownProduct, FALSE, 1)>>}

ShipInputs == {BlankAddress, InlineAddress}

CheckoutNext ==
  \/ \E p \in Products, q \in 1..MaxQty :
        CartAdd("u1", HexStr(p, FALSE), q) /\ Len(orders) < MaxCheckouts
  \/ \E pr \in Prices : ProductSetPrice("p1", pr) /\ Len(orders) < MaxCheckouts
  \/ \E a \in BOOLEAN : ProductSetActive("p2", a) /\ Len(orders) < MaxCheckouts
  \/ ProductRemove("p2") /\ Len(orders) < MaxCheckouts
  \/ AddressDelete("u1", "ad1") /\ Len(orders) < MaxCheckouts
  \/ \E ct \in CallerTargets, a \in AddressIdInputs, its \in PayloadLists :
        CreateOrder(ct[1], ct[2], a, its) /\ Len(orders') <= MaxCheckouts
  \/ \E ct \in CallerTargets, ship \in ShipInputs :
        CartCheckout(ct[1], ct[2], ship) /\ Len(orders') <= MaxCheckouts
  \/ \E its \in ItemLists : GuestOrder(its, InlineAddress, "g1") /\ Len(orders') <= MaxCheckouts

SpecCheckout == Init /\ [][CheckoutNext]_vars

(***************************************************************************)
(* SpecLifecycle: status updates, bulk updates, soft deletes and cancels   *)
(* of orders placed by two customers.                                      *)
(***************************************************************************)
\* an id and a code that no stored order carries
UnknownOrder == MaxOrders + 1

OrderIdStrings == {HexStr(k, FALSE) : k \in (1..MaxOrders) \cup {UnknownOrder}}

\* identifier lists of a bulk request: an id, an id in upper case, a code
\* mixed with an id, a code mixed with an unknown id and a text that is
\* neither, an unknown code alone
IdLists ==
  {<<HexStr(1, FALSE)>>,
   <<HexStr(1, TRUE)>>,
   <<OrderCode(2), HexStr(1, FALSE)>>,
   <<OrderCode(1), HexStr(UnknownOrder, FALSE), [kind |-> "text"]>>,
   <<OrderCode(UnknownOrder)>>}

LifecycleNext ==
  \/ \E ct \in {<<"u1", "ad1">>, <<"u2", "ad2">>} :
        /\ CreateOrder(ct[1], Null, HexStr(ct[2], FALSE), <<Item("p1", FALSE, 1)>>)
        /\ Len(orders') <= MaxOrders
  \/ \E c \in {"u1", "m1", "a1"}, id \in OrderIdStrings, st \in Statuses :
        UpdateStatus(c, id, st)
  \/ \E c \in {"u2", "a1"}, ids \in IdLists, st \in Statuses : BulkStatus(c, ids, st)
  \/ \E c \in {"u1", "a1"}, ids \in IdLists : BulkDelete(c, ids)
  \/ \E c \in Users, id \in OrderIdStrings : Cancel(c, id)

SpecLifecycle == Init /\ [][LifecycleNext]_vars

(***************************************************************************)
(* SpecStatus: every status update and cancel on the order of a customer,  *)
(* by its owner, by another customer, by a manager and by an admin.        *)
(***************************************************************************)
StatusNext ==
  \/ \E ct \in {<<"u1", "ad1">>, <<"u2", "ad2">>} :
        /\ CreateOrder(ct[1], Null, HexStr(ct[2], FALSE), <<Item("p1", FALSE, 1)>>)
        /\ Len(orders') <= MaxCheckouts
  \/ \E c \in {"u1", "m1", "a1"}, id \in OrderIdStrings, st \in Statuses :
        UpdateStatus(c, id, st)
  \/ \E c \in {"u2", "a1"}, ids \in IdLists, st \in Statuses : BulkStatus(c, ids, st)
  \/ \E c \in {"u1", "a1"}, ids \in IdLists : BulkDelete(c, ids)
  \/ \E c \in Users, id \in OrderIdStrings : Cancel(c, id)

SpecStatus == Init /\ [][StatusNext]_vars

(***************************************************************************)
(* SpecDashboard: listings, lookups and the dashboard over orders placed   *)
(* on different days, some of them paid, refunded or soft-deleted.         *)
(***************************************************************************)
HalfDay == DayMs \div 2

LastDay == MaxDays * DayMs

\* requests (start, end, limit): the whole horizon, noon to noon, noon to the
\* last midnight, one instant, the last day, and an end before the start
Windows ==
  {<<0, LastDay, DefaultLimit>>,
   <<HalfDay, LastDay - HalfDay, DefaultLimit>>,
   <<HalfDay, LastDay, 1>>,
   <<DayMs, DayMs, DefaultLimit>>,
   <<LastDay - DayMs, LastDay, 1>>,
   <<DayMs, 0, DefaultLimit>>}

DashboardNext ==
  \/ Tick(DayMs) /\ now' <= LastDay
  \/ \E q \in 1..MaxQty :
        /\ CreateOrder("u1", Null, HexStr("ad1", FALSE), <<Item("p1", FALSE, q)>>)
        /\ Len(orders') <= MaxOrders
  \/ \E id \in OrderIdStrings : UpdateStatus("a1", id, "paid")
  \/ \E ids \in {<<HexStr(1, FALSE)>>, <<OrderCode(2)>>} : BulkDelete("a1", ids)
  \/ \E id \in OrderIdStrings : Cancel("u1", id)
  \/ \E cs \in {<<"u1", Null>>, <<"a1", Null>>, <<"a1", "paid">>} : ListOrders(cs[1], cs[2])
  \/ \E c \in {"u1", "u2", "a1"}, id \in OrderIdStrings : GetOrder(c, id)
  \/ Dashboard("u1", 0, LastDay, DefaultLimit)
  \/ \E w \in Windows : Dashboard("a1", w[1], w[2], w[3])

SpecDashboard == Init /\ [][DashboardNext]_vars

(***************************************************************************)
(* Spec: one customer's order from creation on, under every operation of   *)
(* the order routes and every change of the data the order was built from. *)
(***************************************************************************)
Next ==
  \/ CartAdd("u1", HexStr("p1", FALSE), 1)
  \/ \E np \in {<<"n1", 1>>, <<"n2", 2>>} : ProductSetNamePrice("p1", np[1], np[2])
  \/ \E l \in {"l1", "l2"} : AddressSetLine1("u1", "ad1", l)
  \/ \E c \in Currencies : SetCurrency(c)
  \/ CacheExpire /\ now' <= MaxExpiries * CACHE_TTL_MS
  \/ CreateOrder("u1", Null, HexStr("ad1", FALSE), <<>>) /\ Len(orders') <= MaxCheckouts
  \/ \E st \in {"paid", "pending"} : UpdateStatus("a1", HexStr(1, FALSE), st)
  \/ BulkStatus("m1", <<OrderCode(1), HexStr(UnknownOrder, FALSE)>>, "shipped")
  \/ BulkDelete("a1", <<HexStr(1, FALSE), OrderCode(UnknownOrder)>>)
  \/ \E c \in {"u1", "u2"} : Cancel(c, HexStr(1, FALSE))

Spec == Init /\ [][Next]_vars

(***************************************************************************)
(* Properties                                                              *)
(***************************************************************************)
LineAmounts(items) == [i \in 1..Len(items) |-> items[i].price * items[i].quantity]

\* C2: in every persisted cart state reached by add, set quantity, remove and
\* clear, the total is the sum over the line items of price x quantity, and
\* each subtotal is its item's price x quantity.
C2_CartTotalIsSum ==
  \A u \in Users :
    carts[u].exists =>
      /\ carts[u].totalAmount = SumSeq(LineAmounts(carts[u].items))
      /\ \A i \in 1..Len(carts[u].items) :
           carts[u].items[i].subtotal = carts[u].items[i].price * carts[u].items[i].quantity

\* a quantity was overwritten in a cart of two lines, one of them holding a
\* price the catalog no longer has
C2_Witness ==
  /\ res.op = "cartSet" /\ res.status = 200
  /\ carts["u1"].exists
  /\ Len(carts["u1"].items) = 2
  /\ carts["u1"].totalAmount >= 3
  /\ \E i \in 1..2 :
       carts["u1"].items[i].price # products[carts["u1"].items[i].product].price

\* C6: no two line items of a cart reference the same product (adding a
\* product that is already a line item only raises that item's quantity).
C6_NoDuplicateLineItems ==
  \A u \in Users :
    carts[u].exists =>
      \A i, j \in 1..Len(carts[u].items) :
        i # j => carts[u].items[i].product # carts[u].items[j].product

\* C3: the values returned by the order-code generations, in the order of
\* the generations, are strictly increasing without gaps, hence pairwise
\* different, also when saves overlap; no two stored orders carry the same
\* code.
C3_CodesUniqueAndGapless ==
  /\ \A i, j \in 1..Len(issued) : i < j => issued[i] < issued[j]
  /\ \A i \in 1..(Len(issued) - 1) : issued[i + 1] = issued[i] + 1
  /\ \A w, v \in Savers : (w # v /\ saving[w] # 0) => saving[w] # saving[v]
  /\ \A j, k \in 1..Len(orders) : j # k => orders[j].orderCode # orders[k].orderCode

\* two saves hold a code at the same time, after an earlier order was stored
C3_Witness ==
  /\ \A w \in Savers : saving[w] # 0
  /\ Len(orders) >= 1
  /\ Len(issued) >= 3

\* C4: an owner's cancel of an active order succeeds exactly when the stored
\* status is pending, and then stores cancelled; on paid, shipped, delivered,
\* cancelled or refunded it answers 400 (InvalidState) and changes no order.
C4_CancelOnlyPending ==
  [][res'.op = "cancel" =>
       \A c \in Users, id \in OrderIdStrings :
         LET k == CastObjectId(id)
         IN  Cancel(c, id) =>
               /\ res'.status = 200 =>
                    /\ k \in 1..Len(orders)
                    /\ orders[k].status = "pending"
                    /\ orders'[k].status = "cancelled"
               /\ (k \in 1..Len(orders) /\ orders[k].isActive /\ orders[k].user = c) =>
                    IF orders[k].status = "pending"
                    THEN res'.status = 200
                    ELSE /\ res'.status = 400
                         /\ res'.error = "Only pending orders can be cancelled"
                         /\ orders' = orders]_vars

\* a cancel was refused with 400 while the only order is active and shipped
C4_Witness ==
  /\ res.op = "cancel" /\ res.status = 400
  /\ Len(orders) = 1
  /\ orders[1].isActive
  /\ orders[1].status = "shipped"

Elevated(c) == RoleOf(c) \in {"admin", "manager"}

\* the identifier v names the order at position k: it spells the order's id,
\* in either case, or it is the order's code
Names(v, k) == (v.kind = "hex" /\ v.of = orders[k].id) \/ v = orders[k].orderCode

Named(ids) == {k \in 1..Len(orders) : \E i \in 1..Len(ids) : Names(ids[i], k)}

\* C9: a single or bulk status update by an admin or a manager stores the
\* requested status, whichever of the six it is and whatever the current
\* status; a status update requested by any other role changes no order.
C9_StatusUpdatesElevatedOnly ==
  [][/\ res'.op = "updateStatus" =>
          \A c \in {"u1", "m1", "a1"}, id \in OrderIdStrings, st \in Statuses :
            UpdateStatus(c, id, st) =>
              IF Elevated(c)
              THEN CastObjectId(id) \in 1..Len(orders) =>
                     /\ res'.status = 200
                     /\ orders'[CastObjectId(id)].status = st
              ELSE res'.status = 403 /\ orders' = orders
     /\ res'.op = "bulkStatus" =>
          \A c \in {"u2", "a1"}, ids \in IdLists, st \in Statuses :
            BulkStatus(c, ids, st) =>
              IF Elevated(c)
              THEN \A k \in 1..Len(orders) :
                     (\E i \in 1..Len(ids) :
                        ids[i] \in {IdToString(orders[k].id), orders[k].orderCode})
                       => res'.status = 200 /\ orders'[k].status = st
              ELSE res'.status = 403 /\ orders' = orders]_vars

\* an elevated caller's update has just stored pending on an order that was
\* soft-deleted
C9_Witness ==
  /\ res.op = "updateStatus" /\ res.status = 200
  /\ Len(orders) = 1
  /\ orders[1].status = "pending"
  /\ ~orders[1].isActive

\* C10: a bulk status update whose list names at least one order stores the
\* requested status on exactly the named orders, reports their number as
\* matchedCount and reports as notFound exactly the identifiers of the list
\* that name no order.
C10_BulkReportsExactly ==
  [][res'.op = "bulkStatus" =>
       \A c \in {"u2", "a1"}, ids \in IdLists, st \in Statuses :
         (BulkStatus(c, ids, st) /\ Elevated(c) /\ Named(ids) # {}) =>
           LET NamesNone(v) == \A k \in 1..Len(orders) : ~Names(v, k)
           IN  /\ res'.status = 200
               /\ \A k \in 1..Len(orders) :
                    orders'[k] = IF k \in Named(ids)
                                 THEN [orders[k] EXCEPT !.status = st]
                                 ELSE orders[k]
               /\ res'.matchedCount = Cardinality(Named(ids))
               /\ res'.notFound = SelectSeq(ids, NamesNone)]_vars

Frozen(o) ==
  <<o.id, o.orderCode, o.user, o.items, o.totalAmount, o.currency, o.shippingAddress>>

\* C8: a stored order stays stored, and its items, total, currency, owner,
\* code and shipping address never change, whatever happens to the catalog,
\* the address book, the cart, the currency setting or the order's status
\* and active flag.
C8_OrdersFrozen ==
  [][\A k \in 1..Len(orders) :
       /\ Len(orders') >= k
       /\ Frozen(orders'[k]) = Frozen(orders[k])]_vars

\* a cancelled, soft-deleted order whose price, name, address line and
\* currency all differ from what the catalog, the address book and the
\* settings hold now, while the cart has been filled again
C8_Witness ==
  /\ Len(orders) = 1
  /\ orders[1].status = "cancelled"
  /\ ~orders[1].isActive
  /\ orders[1].items[1].price # products["p1"].price
  /\ orders[1].items[1].name # products["p1"].name
  /\ orders[1].shippingAddress.line1 # addresses["ad1"].line1
  /\ orders[1].currency # StoreCurrency
  /\ carts["u1"].items # <<>>

\* every line item of the cart references a product the catalog holds active
CartAvailable(cart) ==
  \A i \in 1..Len(cart.items) : FindActiveProduct(cart.items[i].product) # Null

\* the sum over the cart's lines of the catalog's current price x quantity
CartAtCatalogPrices(cart) ==
  SumSeq([i \in 1..Len(cart.items) |->
            products[cart.items[i].product].price * cart.items[i].quantity])

OwnActiveAddresses(u) == {a \in AddressIds : addresses[a].user = u /\ addresses[a].isActive}

\* the step stored one more order, pending and owned by t, whose lines are
\* the lines of cart at the catalog's prices, and left t's cart empty
Materialized(t, cart) ==
  /\ res'.status = 201
  /\ Len(orders') = Len(orders) + 1
  /\ \A k \in 1..Len(orders) : orders'[k] = orders[k]
  /\ LET o == orders'[Len(orders')]
     IN  /\ o.status = "pending"
         /\ o.user = t
         /\ o.isActive
         /\ o.orderCode = OrderCode(counter')
         /\ Len(o.items) = Len(cart.items)
         /\ \A i \in 1..Len(cart.items) :
              /\ o.items[i].product = cart.items[i].product
              /\ o.items[i].quantity = cart.items[i].quantity
              /\ o.items[i].price = products[cart.items[i].product].price
              /\ o.items[i].subtotal = o.items[i].price * o.items[i].quantity
         /\ o.totalAmount = CartAtCatalogPrices(cart)
  /\ carts'[t].exists
  /\ carts'[t].items = <<>>
  /\ carts'[t].totalAmount = 0

\* C1: a checkout (POST /orders without items, with an active address of the
\* target user, or POST /cart/checkout) of a non-empty cart whose products
\* are all available stores one pending order whose line items carry the
\* catalog's current prices and whose total is the sum of current price x
\* cart quantity, whatever prices the cart has cached, and leaves the cart
\* with zero items and zero total.
C1_CheckoutMaterializesCart ==
  [][res'.op \in {"createOrder", "cartCheckout"} =>
       \A ct \in CallerTargets :
         LET t == TargetUser(ct[1], ct[2])
         IN  (carts[t].exists /\ carts[t].items # <<>> /\ CartAvailable(carts[t])) =>
               /\ \A a \in OwnActiveAddresses(t) :
                    CreateOrder(ct[1], ct[2], HexStr(a, FALSE), <<>>)
                      => Materialized(t, carts[t])
               /\ \A ship \in ShipInputs :
                    CartCheckout(ct[1], ct[2], ship) => Materialized(t, carts[t])]_vars

\* a cart of two lines was checked out after the price of its first product
\* rose from 1 to 2: the order bills 2 x 2 + 1 x 1
C1_Witness ==
  /\ res.op = "cartCheckout" /\ res.status = 201
  /\ Len(orders) = 1
  /\ orders[1].user = "u1"
  /\ Len(orders[1].items) = 2
  /\ orders[1].items[1].product = "p1"
  /\ orders[1].items[1].price = 2
  /\ orders[1].items[1].quantity = 2
  /\ orders[1].totalAmount = 5
  /\ carts["u1"].items = <<>>
  /\ carts["u1"].totalAmount = 0

Unavailable(p) == p \notin Products \/ ~products[p].exists \/ ~products[p].isActive

\* some item of the source names a product that is missing or inactive
AnyUnavailable(src) == \E i \in 1..Len(src) : Unavailable(CastObjectId(src[i].productId))

\* the step answered 400, stored no order, took no code and left every
\* cart's items and total as they were
Aborted ==
  /\ res'.status = 400
  /\ orders' = orders
  /\ counter' = counter
  /\ issued' = issued
  /\ \A u \in Users :
       carts[u].exists =>
         /\ carts'[u].exists
         /\ carts'[u].items = carts[u].items
         /\ carts'[u].totalAmount = carts[u].totalAmount

\* C5: when an item of the source (the payload of POST /orders, the cart of
\* POST /orders or POST /cart/checkout, the payload of POST /orders/guest)
\* names a product that is missing or inactive, the request, whose address
\* is valid, is answered 400, no order is stored, no code is taken, no guest
\* account is added and no cart loses an item.
C5_MaterializationAllOrNothing ==
  [][res'.op \in {"createOrder", "cartCheckout", "guestOrder"} =>
       /\ \A ct \in CallerTargets :
            LET t == TargetUser(ct[1], ct[2])
                FromCart == /\ carts[t].exists
                            /\ carts[t].items # <<>>
                            /\ ~CartAvailable(carts[t])
            IN  /\ \A a \in OwnActiveAddresses(t), its \in PayloadLists :
                     (/\ CreateOrder(ct[1], ct[2], HexStr(a, FALSE), its)
                      /\ IF its = <<>> THEN FromCart ELSE AnyUnavailable(its))
                       => Aborted
                /\ \A ship \in ShipInputs :
                     (CartCheckout(ct[1], ct[2], ship) /\ FromCart) => Aborted
       /\ \A its \in ItemLists :
            (GuestOrder(its, InlineAddress, "g1") /\ AnyUnavailable(its))
              => (Aborted /\ users' = users)]_vars

\* a checkout of a cart of two lines was refused because one of its products
\* is no longer active; the cart keeps both lines and no order exists
C5_Witness ==
  /\ res.op = "cartCheckout" /\ res.status = 400
  /\ res.error = "Product no longer available"
  /\ Len(carts["u1"].items) = 2
  /\ \E i \in 1..2 : Unavailable(carts["u1"].items[i].product)
  /\ orders = <<>>
  /\ counter = 0

\* C7: every order of an account holder placed by POST /orders or POST
\* /cart/checkout ships to a copy of the fields of an address of that user
\* (addresses are only soft-deleted here, so the fields stay comparable).
C7_OrdersShipToOwnAddress ==
  \A k \in 1..Len(orders) :
    orders[k].user \in Users =>
      \E a \in AddressIds :
        /\ addresses[a].user = orders[k].user
        /\ orders[k].shippingAddress = SnapshotAddress(addresses[a])

\* the active orders with a revenue status created in [a, b]
ActiveSales(a, b) ==
  {k \in 1..Len(orders) :
     /\ orders[k].isActive
     /\ orders[k].status \in {"paid", "shipped", "delivered"}
     /\ a <= orders[k].createdAt /\ orders[k].createdAt <= b}

\* the sum of the totals of the orders at the positions in S
TotalOver(S) ==
  SumSeq([k \in 1..Len(orders) |-> IF k \in S THEN orders[k].totalAmount ELSE 0])

\* C11: a bulk soft-delete by an admin or a manager removes no order and
\* clears the active flag of every order it names, changing nothing else; an
\* order whose flag is cleared never gets it back, is in no listing, counts
\* in no revenue, sales or overview figure of the dashboard, is in no recent
\* sales, and get-by-id and cancel on it answer 404.
C11_SoftDeletedOrdersAreHidden ==
  [][/\ Len(orders') >= Len(orders)
     /\ \A k \in 1..Len(orders) : ~orders[k].isActive => ~orders'[k].isActive
     /\ res'.op = "bulkDelete" =>
          \A ids \in IdLists \cup {<<OrderCode(2)>>} :
            (BulkDelete("a1", ids) /\ Named(ids) # {}) =>
              \A k \in 1..Len(orders) :
                orders'[k] = IF k \in Named(ids)
                             THEN [orders[k] EXCEPT !.isActive = FALSE]
                             ELSE orders[k]
     /\ (res'.op = "list" /\ res'.status = 200) =>
          \A i \in 1..Len(res'.data) : orders'[res'.data[i]].isActive
     /\ (res'.op = "dashboard" /\ res'.status = 200) =>
          LET S == ActiveSales(res'.range.start, res'.range.end)
          IN  /\ res'.sales = Cardinality(S)
              /\ res'.totalRevenue = TotalOver(S)
              /\ \A i \in 1..Len(res'.overview) :
                   LET D == {k \in S : UtcDay(orders[k].createdAt) = res'.overview[i].date}
                   IN  /\ res'.overview[i].orders = Cardinality(D)
                       /\ res'.overview[i].revenue = TotalOver(D)
              /\ \A i \in 1..Len(res'.recentSales) : orders'[res'.recentSales[i]].isActive
     /\ res'.op \in {"getOrder", "cancel"} =>
          \A c \in Users, id \in OrderIdStrings :
            LET k == CastObjectId(id)
            IN  ((GetOrder(c, id) \/ Cancel(c, id))
                   /\ k \in 1..Len(orders) /\ ~orders[k].isActive)
                  => (res'.status = 404 /\ orders' = orders)]_vars

\* the dashboard over the whole horizon counted one sale and its revenue
\* while another paid order of the window is soft-deleted
C11_Witness ==
  /\ res.op = "dashboard" /\ res.status = 200
  /\ res.range = [start |-> 0, end |-> LastDay]
  /\ Len(orders) = 2
  /\ orders[1].status = "paid" /\ ~orders[1].isActive
  /\ orders[2].status = "paid" /\ orders[2].isActive
  /\ res.sales = 1
  /\ res.totalRevenue = orders[2].totalAmount
  /\ Len(res.recentSales) = 1

\* the step stored no order, took no code and left t's cart without items
\* and with a zero total
NothingOrdered(t) ==
  /\ orders' = orders
  /\ counter' = counter
  /\ issued' = issued
  /\ carts'[t].exists => (carts'[t].items = <<>> /\ carts'[t].totalAmount = 0)
  /\ \A u \in Users \ {t} : carts'[u] = carts[u]

\* C12: a checkout without explicit items of a user whose cart is missing or
\* empty is refused with 400 on both routes (POST /orders also refuses a
\* missing or unknown address, with 400 or 404, before it looks at the
\* cart); no order is stored, the order-code counter keeps its value and the
\* cart still has no items and a zero total.
C12_EmptyCartCheckoutRefused ==
  [][res'.op \in {"createOrder", "cartCheckout"} =>
       \A ct \in CallerTargets :
         LET t == TargetUser(ct[1], ct[2])
         IN  (~carts[t].exists \/ carts[t].items = <<>>) =>
               /\ \A a \in AddressIdInputs :
                    CreateOrder(ct[1], ct[2], a, <<>>) =>
                      /\ NothingOrdered(t)
                      /\ res'.status \in {400, 404}
                      /\ (a # Absent /\ CastObjectId(a) \in OwnActiveAddresses(t)) =>
                           /\ res'.status = 400
                           /\ res'.error = "No items provided and cart is empty"
               /\ \A ship \in ShipInputs :
                    CartCheckout(ct[1], ct[2], ship) =>
                      /\ NothingOrdered(t)
                      /\ res'.status = 400
                      /\ res'.error = "Cart is empty"]_vars

\* a cart that a checkout had emptied was checked out again and refused
C12_Witness ==
  /\ res.op = "cartCheckout" /\ res.status = 400 /\ res.error = "Cart is empty"
  /\ Len(orders) = 1
  /\ counter = 1
  /\ carts["u1"].exists
  /\ carts["u1"].items = <<>>
  /\ carts["u1"].totalAmount = 0

\* product p is a line item of the cart
InCart(cart, p) == cart.exists /\ \E i \in 1..Len(cart.items) : cart.items[i].product = p

\* the cart has the items and the total it had (a missing cart counts as empty)
CartKept(u) ==
  /\ carts'[u].exists
  /\ carts'[u].items = (IF carts[u].exists THEN carts[u].items ELSE <<>>)
  /\ carts'[u].totalAmount = (IF carts[u].exists THEN carts[u].totalAmount ELSE 0)

\* C13: setting the quantity of a product of the cart to 0 leaves the cart
\* without a line item of that product; removing, or setting the quantity
\* of, a product that is not a line item answers 404 and leaves the cart's
\* items and total as they were.
C13_ZeroQuantityRemoves ==
  [][res'.op \in {"cartSet", "cartRemove"} =>
       \A s \in ProductIdStrings :
         LET p == CastObjectId(s)
         IN  /\ (CartSetQuantity("u1", s, 0) /\ InCart(carts["u1"], p))
                  => ~InCart(carts'["u1"], p)
             /\ \A q \in 0..MaxQty :
                  ((CartSetQuantity("u1", s, q) \/ CartRemove("u1", s))
                     /\ ~InCart(carts["u1"], p))
                    => (res'.status = 404 /\ CartKept("u1"))]_vars

\* C14: adding a product that does not exist or is inactive is answered 404
\* (NotFound) and leaves every cart as it was.
C14_AddUnavailableIsNotFound ==
  [][res'.op = "cartAdd" =>
       \A s \in ProductIdStrings, q \in 1..MaxQty :
         (CartAdd("u1", s, q) /\ Unavailable(CastObjectId(s)))
           => (res'.status = 404 /\ carts' = carts)]_vars

\* C15: a cancel on an active pending order by anyone but its owner, an
\* admin or a manager included, answers 403 and changes no order; the
\* owner's cancel stores cancelled; the owner's cancel on the order once it
\* is cancelled answers 400 and changes no order.
C15_CancelIsOwnerOnly ==
  [][res'.op = "cancel" =>
       \A c \in Users, id \in OrderIdStrings :
         LET k == CastObjectId(id)
         IN  (Cancel(c, id) /\ k \in 1..Len(orders) /\ orders[k].isActive) =>
               /\ (orders[k].status = "pending" /\ orders[k].user # c) =>
                    (res'.status = 403 /\ orders' = orders)
               /\ (orders[k].status = "pending" /\ orders[k].user = c) =>
                    /\ res'.status = 200
                    /\ orders' = [orders EXCEPT ![k].status = "cancelled"]
               /\ (orders[k].status = "cancelled" /\ orders[k].user = c) =>
                    (res'.status = 400 /\ orders' = orders)]_vars

\* a cancel by someone else than the owner was refused; the order is still
\* active and pending
C15_Witness ==
  /\ res.op = "cancel" /\ res.status = 403
  /\ Len(orders) = 1
  /\ orders[1].isActive
  /\ orders[1].status = "pending"

\* C16: an order stored by POST /orders or POST /cart/checkout is owned by
\* the caller, or by the user the caller names when the caller is an admin
\* or a manager; POST /orders ships it to an address of that owner; when it
\* is drawn from a cart it has that owner's cart lines, and no other user's
\* cart changes.  A customer who names another user gets an order of their
\* own, from their own cart and address, or none.
C16_OrderOwnerIsTarget ==
  [][(res'.op \in {"createOrder", "cartCheckout"} /\ Len(orders') > Len(orders)) =>
       \A ct \in CallerTargets :
         LET owner == IF RoleOf(ct[1]) \in {"admin", "manager"} /\ ct[2] # Null
                      THEN ct[2] ELSE ct[1]
             o == orders'[Len(orders')]
             FromOwnersCart ==
               /\ carts[owner].exists
               /\ Len(o.items) = Len(carts[owner].items)
               /\ \A i \in 1..Len(o.items) :
                    /\ o.items[i].product = carts[owner].items[i].product
                    /\ o.items[i].quantity = carts[owner].items[i].quantity
             OthersKept == \A u \in Users \ {owner} : carts'[u] = carts[u]
         IN  /\ \A a \in AddressIdInputs, its \in PayloadLists :
                  CreateOrder(ct[1], ct[2], a, its) =>
                    /\ o.user = owner
                    /\ \E ad \in OwnActiveAddresses(owner) :
                         o.shippingAddress = SnapshotAddress(addresses[ad])
                    /\ its = <<>> => FromOwnersCart
                    /\ OthersKept
             /\ \A ship \in ShipInputs :
                  CartCheckout(ct[1], ct[2], ship) =>
                    (o.user = owner /\ FromOwnersCart /\ OthersKept)]_vars

\* the customer u2 has an order of their own, shipped to their own address,
\* while the cart of u1, whom u2's requests name, still has its lines
C16_Witness ==
  /\ res.op = "createOrder" /\ res.status = 201
  /\ Len(orders) = 1
  /\ orders[1].user = "u2"
  /\ orders[1].shippingAddress = SnapshotAddress(addresses["ad2"])
  /\ carts["u1"].exists
  /\ carts["u1"].items # <<>>

\* the reported change r is the percentage change from prev to curr: the
\* quotient (curr - prev) * 100 / prev when prev is not zero, 0 when both
\* are zero, 100 when only prev is zero
IsPctChange(r, curr, prev) ==
  /\ r.den # 0
  /\ IF prev # 0 THEN r.num * prev = (curr - prev) * 100 * r.den
     ELSE IF curr = 0 THEN r.num = 0
     ELSE r.num = 100 * r.den

\* C17: in every dashboard response the change of each of the four metrics
\* is the percentage change from the metric's previous value to its current
\* one: (current - previous) / previous x 100 when previous is not zero, 0
\* when both are zero, 100 when previous is zero and current is not.
C17_PercentageChange ==
  (res.op = "dashboard" /\ res.status = 200) =>
    /\ IsPctChange(res.change.totalRevenue, res.totalRevenue, res.previous.totalRevenue)
    /\ IsPctChange(res.change.subscriptions, res.subscriptions, res.previous.subscriptions)
    /\ IsPctChange(res.change.sales, res.sales, res.previous.sales)
    /\ IsPctChange(res.change.activeNow, res.activeNow, res.previous.activeNow)

\* a dashboard whose sales rose from zero (a change of 100) while its
\* subscriptions fell from a nonzero number
C17_Witness ==
  /\ res.op = "dashboard" /\ res.status = 200
  /\ res.previous.sales = 0 /\ res.sales > 0
  /\ res.change.sales = Ratio(100, 1)
  /\ res.previous.subscriptions > 0
  /\ res.subscriptions < res.previous.subscriptions

\* C18: for a window whose start is not after its end, the overview has
\* exactly one point per calendar day from the day of start to the day of
\* end, in order, and each point carries the revenue and the number of the
\* window's qualifying orders of that day.
C18_OverviewCoversEveryDay ==
  (res.op = "dashboard" /\ res.status = 200 /\ res.range.start <= res.range.end) =>
    LET first == UtcDay(res.range.start)
        last == UtcDay(res.range.end)
        S == ActiveSales(res.range.start, res.range.end)
    IN  /\ Len(res.overview) = last - first + 1
        /\ \A i \in 1..Len(res.overview) :
             LET D == {k \in S : UtcDay(orders[k].createdAt) = first + i - 1}
             IN  /\ res.overview[i].date = first + i - 1
                 /\ res.overview[i].orders = Cardinality(D)
                 /\ res.overview[i].revenue = TotalOver(D)

\* settings: two requests read the currency while it is being changed
SpecSettings == Init /\ [][SettingsNext]_vars

\* C19: getCurrency answers from the cache only while the entry is less than
\* CACHE_TTL_MS old, and what it then answers is the currency that the last
\* successful setCurrency stored, never an older one.
C19_CacheServesLastSetCurrency ==
  (res.op = "getCurrency" /\ res.cached) =>
    /\ now - cache.loadedAt < CACHE_TTL_MS
    /\ res.data = StoreCurrency

\* start-up and requests of one process calling connectDB()
SpecConnect == Init /\ [][ConnectNext]_vars

Pending == {n \in 1..Len(db.attempts) : db.attempts[n] = "pending"}

Established == {n \in 1..Len(db.attempts) : db.attempts[n] = "fulfilled"}

\* C20: at most one connection attempt is in flight and at most one
\* connection is established; the cached promise is never a rejected one;
\* no step starts an attempt while one is pending or has succeeded; and a
\* call that finds no connection and only failed attempts, with the URI
\* set, starts a fresh attempt.
C20_SingleConnectionAttempt ==
  /\ [](/\ Cardinality(Pending) <= 1
        /\ Cardinality(Established) <= 1
        /\ db.conn \in {0} \cup Established
        /\ db.promise # 0 => db.attempts[db.promise] # "rejected")
  /\ [][/\ (Pending \cup Established # {}) => Len(db'.attempts) = Len(db.attempts)
        /\ (/\ res'.op = "connectDB" /\ res'.status = 0
            /\ Pending \cup Established = {}) =>
              /\ Len(db'.attempts) = Len(db.attempts) + 1
              /\ db'.attempts[Len(db'.attempts)] = "pending"
              /\ db'.promise = Len(db'.attempts)]_vars

C20_Witness ==
  /\ res.op = "connectDB" /\ res.status = 200
  /\ Len(db.attempts) = 2
  /\ db.attempts[1] = "rejected"
  /\ db.conn = 2
  /\ \E c \in Callers : db.awaiting[c] = 2

\* request bodies of PUT /addresses/:id: any subset of the fields
UpdateBodies ==
  {[fields |-> {"line1"}, line1 |-> "l2"],
   [fields |-> {"isDefault"}, isDefault |-> TRUE],
   [fields |-> {"isDefault"}, isDefault |-> FALSE],
   [fields |-> {"user", "isDefault"}, user |-> "u2", isDefault |-> TRUE]}

AddressNext ==
  \/ \E d \in BOOLEAN : AddressCreate("u1", d)
  \/ \E u \in {"u1", "u2"}, id \in AddressIds, body \in UpdateBodies : AddressUpdate(u, id, body)
  \/ \E u \in {"u1", "u2"}, id \in AddressIds : AddressSetDefault(u, id)
  \/ \E u \in {"u1", "u2"}, id \in AddressIds : AddressDelete(u, id)

\* the address books of two customers
SpecAddresses == Init /\ [][AddressNext]_vars

DefaultsOf(u) ==
  {a \in AddressIds : addresses[a].user = u /\ addresses[a].isActive /\ addresses[a].isDefault}

\* C21: no user ever has more than one active address flagged default.
C21_AtMostOneDefaultAddress == \A u \in Users : Cardinality(DefaultsOf(u)) <= 1

RaceNext ==
  \/ \E q \in Requests : CartAddRead(q, "u1", HexStr("p1", FALSE), 1) /\ Len(orders) < MaxOrders
  \/ \E q \in Requests : CartAddSave(q)
  \/ \E q \in Requests, route \in {"cart", "orders"} :
       CheckoutRead(q, route, "u1", HexStr("ad1", FALSE))
  \/ \E q \in Requests : CheckoutCreate(q) /\ Len(orders') <= MaxOrders
  \/ \E q \in Requests, ok \in BOOLEAN : CheckoutClear(q, ok)

\* two requests of one customer, adds and checkouts, interleaved at their awaits
SpecRace == Init /\ [][RaceNext]_vars

\* C22: the save of an add that finds its product in the cart stores the
\* quantity and the total computed from the copy the add read, whatever the
\* cart holds when the write arrives; so the write of an add that read the
\* cart before another add wrote it undoes that other add.
C22_AddSavesItsOwnCopy ==
  [][\A q \in Requests :
       (/\ flight[q].pc = "addSave" /\ flight[q].idx > 0
        /\ flight'[q] = Parked /\ res'.status = 201) =>
         /\ carts'[flight[q].u].items[flight[q].idx].quantity = flight[q].item.quantity
         /\ carts'[flight[q].u].totalAmount = flight[q].totalAmount]_vars

\* the second of two adds of one unit has answered 201, and the quantity it
\* stored is the quantity the first add had already stored
C22_Witness ==
  /\ res.op = "cartAdd" /\ res.status = 201 /\ res.inPlace
  /\ res.replaced.quantity = res.data.quantity
  /\ \A q \in Requests : flight[q] = Parked
  /\ carts["u1"].items[1].quantity = res.data.quantity

\* C23: a checkout that has persisted its order answers 201 with that
\* order, whether or not the clearing of the cart succeeded.
C23_ClearFailureKeepsSuccess ==
  (res.op = "checkout" /\ res.order # 0 /\ res.status # 0) =>
    /\ res.status = 201
    /\ res.order \in 1..Len(orders)

CancelRaceNext ==
  \/ /\ CreateOrder("u1", Null, HexStr("ad1", FALSE), <<Item("p1", FALSE, 1)>>)
     /\ Len(orders') <= MaxOrders
  \/ \E q \in Requests, c \in {"u1", "u2"}, id \in 1..MaxOrders :
       CancelRead(q, c, HexStr(id, FALSE))
  \/ \E q \in Requests : CancelSave(q)
  \/ \E c \in {"u1", "a1"}, id \in 1..MaxOrders, st \in {"pending", "paid", "cancelled"} :
       UpdateStatus(c, HexStr(id, FALSE), st)
  \/ \E st \in {"paid", "shipped"} : BulkStatus("a1", <<HexStr(1, FALSE)>>, st)

\* orders of one customer, the owner's cancels and the staff's status updates,
\* interleaved
SpecCancelRace == Init /\ [][CancelRaceNext]_vars

\* C24: the write of a cancel turns the order to cancelled only when the
\* stored status is pending at that moment.
C24_CancelWritesOnlyOverPending ==
  [][\A q \in Requests :
       (flight[q].pc = "cancelSave" /\ flight'[q] = Parked
        /\ orders'[flight[q].k].status = "cancelled") =>
         orders[flight[q].k].status = "pending"]_vars

\* C25: no two checkouts have both created an order from copies of one
\* user's cart that hold the same line items.
C25_CartOrderedOnce ==
  \A q1, q2 \in Requests :
    (/\ q1 # q2
     /\ flight[q1].pc = "clear" /\ flight[q2].pc = "clear"
     /\ flight[q1].u = flight[q2].u) =>
      flight[q1].items # flight[q2].items

\* the product of the i-th stored item is still in the cart after the step
StillInCart(u, i) ==
  \E j \in 1..Len(carts'[u].items) : carts'[u].items[j].product = carts[u].items[i].product

\* C26: a checkout that clears the cart leaves in it every item that was
\* appended, or whose quantity was raised, after the checkout read the cart.
C26_ClearRemovesOnlyOrderedItems ==
  [][\A q \in Requests :
       (flight[q].pc = "clear" /\ flight'[q] = Parked /\ res'.status = 201) =>
         \A i \in 1..Len(carts[flight[q].u].items) :
           (\/ i > Len(flight[q].items)
            \/ carts[flight[q].u].items[i].quantity > flight[q].items[i].quantity) =>
             StillInCart(flight[q].u, i)]_vars

\* C27: when no load is in flight, the cache holds the stored currency or
\* its entry is no longer served.
C27_CacheFollowsStore ==
  (\A g \in Loaders : loads[g] = Idle) =>
    (cache.currency = Null \/ now - cache.loadedAt >= CACHE_TTL_MS \/ cache.currency = StoreCurrency)

SeriesRevenue(series) == SumSeq([i \in 1..Len(series) |-> series[i].revenue])

SeriesOrders(series) == SumSeq([i \in 1..Len(series) |-> series[i].orders])

\* C28: the revenues of the overview series add up to totalRevenue and its
\* order counts to sales.
C28_SeriesAddsUpToTotals ==
  (res.op = "dashboard" /\ res.status = 200 /\ res.range.start <= res.range.end) =>
    /\ SeriesRevenue(res.overview) = res.totalRevenue
    /\ SeriesOrders(res.overview) = res.sales

\* prevStart = start - (end - start)
PrevStart(start, end) == start - (end - start)

\* C29: no order is counted both in the sales of the current window and in
\* the sales of the previous window: together the two counts are the number
\* of qualifying orders created from the start of the previous window to
\* the end of the current one.
C29_WindowsCountOrdersOnce ==
  (res.op = "dashboard" /\ res.status = 200 /\ res.range.start <= res.range.end) =>
    res.sales + res.previous.sales =
      Cardinality(ActiveSales(PrevStart(res.range.start, res.range.end), res.range.end))

Customers == {u \in Users : RoleOf(u) \in {"customer", "user"}}

CustomerNext ==
  \/ \E ct \in {<<"u1", "ad1">>, <<"u2", "ad2">>} :
        /\ CreateOrder(ct[1], Null, HexStr(ct[2], FALSE), <<Item("p1", FALSE, 1)>>)
        /\ Len(orders') <= MaxOrders
  \/ GuestOrder(<<Item("p1", FALSE, 1)>>, InlineAddress, "g1") /\ Len(orders') <= MaxOrders
  \/ \E q \in Requests, c \in Customers, id \in OrderIdStrings : CancelRead(q, c, id)
  \/ \E q \in Requests : CancelSave(q)
  \/ \E c \in Customers, id \in OrderIdStrings, st \in Statuses : UpdateStatus(c, id, st)
  \/ \E c \in Customers, ids \in IdLists, st \in Statuses : BulkStatus(c, ids, st)
  \/ \E c \in Customers, ids \in IdLists : BulkDelete(c, ids)

\* runs in which every request comes from a customer or a guest
SpecCustomers == Init /\ [][CustomerNext]_vars

CancelledByOwner(k) ==
  \E q \in Requests :
    /\ flight[q].pc = "cancelSave" /\ flight[q].k = k
    /\ flight'[q] = Parked
    /\ IsOwner(orders[k], flight[q].u)

\* C30: without requests of admins or managers, every order enters the
\* collection as pending, no order leaves it, and a step changes the status
\* of an order only from pending to cancelled, as the write of a cancel of
\* its owner.
C30_CustomersOnlyCancel ==
  [][/\ Len(orders') >= Len(orders)
     /\ \A k \in 1..Len(orders') :
          IF k > Len(orders)
          THEN orders'[k].status = "pending"
          ELSE orders'[k].status # orders[k].status =>
                 /\ orders[k].status = "pending"
                 /\ orders'[k].status = "cancelled"
                 /\ CancelledByOwner(k)]_vars

C30_Witness ==
  /\ res.op = "updateStatus" /\ res.status = 403
  /\ Len(orders) = MaxOrders
  /\ orders[1].status = "cancelled"
  /\ orders[2].status = "pending"
  /\ \E q \in Requests : flight[q].pc = "cancelSave" /\ flight[q].k = 1

====
